---- MODULE Spec2Model ----
(***************************************************************************)
(* A model of the Viljoen ETL pipeline of src/main.py and                  *)
(* src/utils/processors.py: the Prefect flow master_flow and the tasks it  *)
(* calls, the remote trigger run_import step by step, and the staging      *)
(* writer load_to_local with its date gate validate_dates; and, called on  *)
(* their own, validate_dates, parse_perl_output, the three transform       *)
(* functions (src/main.py, src/utils/processors.py,                        *)
(* src/scripts/clean_viljoen.py), the body of download_data over the raw   *)
(* directory, get_latest_zip, the body of extract_data and                 *)
(* _ensure_remote_dir.                                                     *)
(*                                                                         *)
(* Reading of the source.  Each function is modelled by the control flow   *)
(* of its body.  Line 108 of src/main.py (config['host',) is read as       *)
(* config['host'], and names a body uses without importing them (getpass)  *)
(* are taken as resolved unless noted.  validate_data names pa and Series, *)
(* which src/utils/processors.py never imports: the model has both the     *)
(* NameError the file raises as it stands and the behaviour of lines       *)
(* 416-427 with the two names bound.  download_data of src/main.py raises  *)
(* AttributeError at line 70 (mkdir on the str of the JSON block) and      *)
(* transform_data of src/utils/processors.py raises NameError at line 473  *)
(* (np): called on their own both are modelled as they stand; in the flow *)
(* the raise is one of the outcomes of the Download step.  The             *)
(* collaborators                                                           *)
(* (SFTP server, SSH server, Prefect blocks, file system errors) are       *)
(* inputs: every outcome they can produce is enumerated with \E.           *)
(***************************************************************************)
EXTENDS Integers, Sequences, FiniteSets, TLC

VARIABLES
    pc,        \* position of master_flow: the stage it is about to call
    trace,     \* the stages master_flow has called in the current run, in order
    dl,        \* how download_data ended in this run
    dlTask,    \* the task run of download_data as the engine sees it
    report,    \* <<number of failure cases validate_data found>>, <<>> before it ran
    up,        \* how upload_to_server ended in this run, and the file it sent
    remote,    \* files present in the remote upload directory
    riPc,      \* position inside run_import
    client,    \* the paramiko.SSHClient of run_import: none / created / open / closed
    execLog,   \* commands issued with client.exec_command, in order
    testRes,   \* (stdout, stderr, exit status) captured from the test command
    mainRes,   \* (stdout, stderr, exit status) captured from the run command
    result,    \* the triple run_import returns
    caught,    \* <<str(e)>> of the exception run_import caught at line 603, else <<>>
    outcome,   \* the final line master_flow logs
    today,     \* datetime.now().date(), as a day number
    dirExists, \* OUTPUT_DIR is a directory
    files,     \* OUTPUT_DIR: file name -> bytes
    loadArgs,  \* the arguments the caller of the task load_to_local passes
    lastLoad,  \* the last load_to_local call: what it did and what it returned
    fnIn,      \* a function called on its own: its name and arguments
    fnOut,     \* what that call returned or raised, <<>> before the call
    rawDir,    \* the local raw directory of download_data: file name -> content
    lastDownload \* the last run of the body of download_data: what it met and did

vars == <<pc, trace, dl, dlTask, report, up, remote, riPc, client, execLog, testRes,
          mainRes, result, caught, outcome, today, dirExists, files, loadArgs,
          lastLoad, fnIn, fnOut, rawDir, lastDownload>>

flowVars == <<pc, trace, dl, dlTask, report, up, remote, outcome>>
riVars == <<riPc, client, execLog, testRes, mainRes, result, caught>>
stageVars == <<dirExists, files, loadArgs, lastLoad>>
fnVars == <<fnIn, fnOut>>
rawVars == <<rawDir, lastDownload>>

----------------------------------------------------------------------------
(* Bounds of the model *)

\* most failure cases one validation report holds
MaxViolations == 2
\* most rows of a table handed to load_to_local
MaxRows == 2

----------------------------------------------------------------------------
(* Values *)

None == "None"
\* a value not there yet: a report before validate_data ran, a triple before a command ran
Nothing == <<>>
\* pandas' NaT: a parsed date is the set of its day numbers, empty when unparseable
NaT == {}
NoCall == [kind |-> "no call"]

\* main.py:353, processors.py:313: validate_dates(min_date, max_date, lookback_days=3)
lookback_days == 3

StageOrder == <<"Download", "Extract", "Transform", "Validate", "Stage", "Upload", "Trigger">>

Executed(stage) == \E i \in DOMAIN trace : trace[i] = stage

IsPrefix(s, t) == Len(s) =< Len(t) /\ \A i \in DOMAIN s : s[i] = t[i]

----------------------------------------------------------------------------
(* Calendar: a date is its day number, day 0 being 1 December 2023.  Python's *)
(* date - timedelta(days=n) is subtraction of day numbers; .month is MonthOf.  *)

Epoch == [y |-> 2023, m |-> 12]

IsLeap(y) == (y % 4 = 0 /\ y % 100 # 0) \/ y % 400 = 0

DaysInMonth(y, m) ==
    IF m = 2 THEN (IF IsLeap(y) THEN 29 ELSE 28)
    ELSE IF m \in {4, 6, 9, 11} THEN 30 ELSE 31

RECURSIVE Civil(_, _, _)
\* the calendar date of day n counted from the first of month m of year y
Civil(n, y, m) ==
    IF n < DaysInMonth(y, m) THEN [y |-> y, m |-> m, d |-> n + 1]
    ELSE IF m = 12 THEN Civil(n - DaysInMonth(y, m), y + 1, 1)
    ELSE Civil(n - DaysInMonth(y, m), y, m + 1)

DateOf(n) == Civil(n, Epoch.y, Epoch.m)
MonthOf(n) == DateOf(n).m

Pad2(k) == IF k < 10 THEN <<0, k>> ELSE <<k \div 10, k % 10>>
\* strftime("%Y-%m-%d"): year, two-digit month, two-digit day
Strftime_Ymd(n) == <<DateOf(n).y>> \o Pad2(DateOf(n).m) \o Pad2(DateOf(n).d)

\* 2 January 2024 and 2 March 2024: the window crosses a year end, a leap February
Todays == {32, 92}
DateOffsets == {-4, -3, 0, 1}

----------------------------------------------------------------------------
(* Date strings.  A date string is its digits <<year, m, m, d, d>>; anything *)
(* else is text that pd.to_datetime(errors="coerce") turns into NaT.         *)

Garbage == <<"not a date">>

RECURSIVE DaysBefore(_, _)
\* days from the epoch to the first of month m of year y (on or after the epoch)
DaysBefore(y, m) ==
    IF y = Epoch.y /\ m = Epoch.m THEN 0
    ELSE IF m = 1 THEN DaysBefore(y - 1, 12) + DaysInMonth(y - 1, 12)
    ELSE DaysBefore(y, m - 1) + DaysInMonth(y, m - 1)

\* pd.to_datetime(cell, errors="coerce")
to_datetime(cell) ==
    IF Len(cell) # 5 THEN NaT
    ELSE LET y == cell[1]
             m == 10 * cell[2] + cell[3]
             d == 10 * cell[4] + cell[5]
         IN  IF m \in 1..12 /\ d \in 1..DaysInMonth(y, m) /\
                (y > Epoch.y \/ (y = Epoch.y /\ m >= Epoch.m))
             THEN {DaysBefore(y, m) + d - 1}
             ELSE NaT

SetMin(S) == CHOOSE x \in S : \A z \in S : x =< z
SetMax(S) == CHOOSE x \in S : \A z \in S : x >= z

----------------------------------------------------------------------------
(* Tables handed to load_to_local: with or without a Date column, the Date  *)
(* cells being date strings around today or unparseable text.               *)

Cells(t) == {Strftime_Ymd(t + o) : o \in DateOffsets} \cup {Garbage}

RECURSIVE SeqsUpTo(_, _)
SeqsUpTo(S, n) ==
    IF n = 0 THEN {<<>>}
    ELSE LET shorter == SeqsUpTo(S, n - 1)
         IN  shorter \cup {Append(q, x) : q \in shorter, x \in S}

Tables(t) ==
    {[hasDate |-> TRUE, Date |-> q] : q \in SeqsUpTo(Cells(t), MaxRows) \ {<<>>}}
    \cup {[hasDate |-> FALSE, Date |-> <<>>]}

----------------------------------------------------------------------------
(* The date gate and the staging writer *)

\* a validate_dates for which January has no previous month
validate_dates_no_wrap(min_d, max_d, today_d, lookback) ==
    LET window_start == today_d - lookback
        cur_month == MonthOf(today_d)
        file_month == MonthOf(max_d)
    IN  IF ~(window_start =< min_d /\ min_d =< today_d /\
             window_start =< max_d /\ max_d =< today_d)
        THEN "ValueError: date range not within the last days"
        ELSE IF file_month \notin {cur_month, cur_month - 1}
        THEN "ValueError: latest file month"
        ELSE "ok"

\* a validate_dates whose month check accepts the current month only
validate_dates_same_month(min_d, max_d, today_d, lookback) ==
    LET window_start == today_d - lookback
        cur_month == MonthOf(today_d)
        file_month == MonthOf(max_d)
    IN  IF ~(window_start =< min_d /\ min_d =< today_d /\
             window_start =< max_d /\ max_d =< today_d)
        THEN "ValueError: date range not within the last days"
        ELSE IF file_month # cur_month
        THEN "ValueError: latest file month"
        ELSE "ok"

\* a validate_dates that looks at the latest date only
validate_dates_max_only(min_d, max_d, today_d, lookback) ==
    LET window_start == today_d - lookback
        cur_month == MonthOf(today_d)
        prev_month == IF cur_month = 1 THEN 12 ELSE cur_month - 1
        file_month == MonthOf(max_d)
    IN  IF ~(window_start =< max_d /\ max_d =< today_d)
        THEN "ValueError: date range not within the last days"
        ELSE IF file_month \notin {cur_month, prev_month}
        THEN "ValueError: latest file month"
        ELSE "ok"

\* validate_dates(min_date, max_date, today, lookback_days): "ok" when it returns,
\* else the ValueError it raises
validate_dates(min_d, max_d, today_d, lookback) ==
    LET window_start == today_d - lookback
        cur_month == MonthOf(today_d)
        prev_month == IF cur_month = 1 THEN 12 ELSE cur_month - 1
        file_month == MonthOf(max_d)
    IN  IF ~(window_start =< min_d /\ min_d =< today_d /\
             window_start =< max_d /\ max_d =< today_d)
        THEN "ValueError: date range not within the last days"
        ELSE IF file_month \notin {cur_month, prev_month}
        THEN "ValueError: latest file month"
        ELSE "ok"

\* a file name with the two dates the other way round
FileName_swapped(min_str, max_str) ==
    [prefix |-> "Viljoenbev_", min |-> max_str, max |-> min_str, ext |-> "csv"]

\* names in OUTPUT_DIR: Viljoenbev_{min}_to_{max}.csv
FileName(min_str, max_str) ==
    [prefix |-> "Viljoenbev_", min |-> min_str, max |-> max_str, ext |-> "csv"]

\* the glob of "*.csv" whatever the prefix asked for
GlobCsv_any_prefix(dir, restrict_delete_to_prefix) == {f \in DOMAIN dir : f.ext = "csv"}

\* Path.glob(pattern): pattern is "*.csv" or f"{restrict_delete_to_prefix}*.csv"
GlobCsv(dir, restrict_delete_to_prefix) ==
    {f \in DOMAIN dir :
        /\ f.ext = "csv"
        /\ restrict_delete_to_prefix # None => f.prefix = restrict_delete_to_prefix}

\* data["Date"].dt.strftime("%Y-%m-%d") then to_csv: one line per row, NaT written empty
CsvBytes(df) ==
    [i \in DOMAIN df.Date |->
        LET p == to_datetime(df.Date[i])
        IN  IF p = NaT THEN <<>> ELSE Strftime_Ymd(SetMin(p))]

Without(dir, gone) == [f \in DOMAIN dir \ gone |-> dir[f]]
With(dir, name, bytes) ==
    [f \in DOMAIN dir \cup {name} |-> IF f = name THEN bytes ELSE dir[f]]

Raise(isDir, dir, gone, exc) ==
    [dirExists |-> isDir, files |-> dir, unlinked |-> gone, wrote |-> FALSE,
     ret |-> [kind |-> "raise", exc |-> exc]]

Prefixes == {None, "Other_"}

\* the arguments of load_to_local (lines 279-284); the defaults are True, True, None
LoadArgs(df, c, d, p) ==
    [df |-> df, create_dir_if_missing |-> c, delete_existing_csvs |-> d,
     restrict_delete_to_prefix |-> p]

DefaultFlags(args) ==
    /\ args.create_dir_if_missing
    /\ args.delete_existing_csvs
    /\ args.restrict_delete_to_prefix = None

\* load_to_local(**args) called on a day t with OUTPUT_DIR in state (isDir, dir),
\* the environment variable OUTPUT_DIR being set; stuck are the files whose unlink
\* fails (logged, then skipped)
load_to_local_body(t, isDir, dir, args, stuck) ==
    IF ~isDir /\ ~args.create_dir_if_missing
    THEN Raise(isDir, dir, {}, "FileNotFoundError: output directory does not exist")
    ELSE
    LET df == args.df
        gone == IF args.delete_existing_csvs
                THEN GlobCsv(dir, args.restrict_delete_to_prefix) \ stuck
                ELSE {}
        kept == Without(dir, gone)
    IN  IF ~df.hasDate
        THEN Raise(TRUE, kept, gone, "KeyError: Date")
        ELSE
        LET parsed == [i \in DOMAIN df.Date |-> to_datetime(df.Date[i])]
            dropna == UNION {parsed[i] : i \in DOMAIN parsed}
        IN  IF dropna = {}
            THEN Raise(TRUE, kept, gone, "ValueError: all NaT")
            ELSE
            LET min_date == SetMin(dropna)
                max_date == SetMax(dropna)
                gate == validate_dates(min_date, max_date, t, lookback_days)
                full_path == FileName(Strftime_Ymd(min_date), Strftime_Ymd(max_date))
            IN  IF gate # "ok"
                THEN Raise(TRUE, kept, gone, gate)
                ELSE IF full_path \in DOMAIN kept
                THEN [dirExists |-> TRUE, files |-> kept, unlinked |-> gone,
                      wrote |-> FALSE,
                      ret |-> [kind |-> "return", path |-> full_path, saved |-> FALSE]]
                ELSE [dirExists |-> TRUE, files |-> With(kept, full_path, CsvBytes(df)),
                      unlinked |-> gone, wrote |-> TRUE,
                      ret |-> [kind |-> "return", path |-> full_path, saved |-> TRUE]]

\* one call of the task load_to_local with the arguments loadArgs, outside a flow run
load_to_local ==
    /\ pc = "idle"
    /\ loadArgs # NoCall
    /\ \E stuck \in SUBSET (IF loadArgs.delete_existing_csvs
                            THEN GlobCsv(files, loadArgs.restrict_delete_to_prefix)
                            ELSE {}) :
          \E r \in {load_to_local_body(today, dirExists, files, loadArgs, stuck)} :
              /\ dirExists' = r.dirExists
              /\ files' = r.files
              /\ lastLoad' =
                    [kind |-> "call", ret |-> r.ret,
                     unlinked |-> r.unlinked, wrote |-> r.wrote,
                     \* OUTPUT_DIR as the call found it
                     hadDir |-> dirExists, before |-> DOMAIN files, was |-> files,
                     \* the call before this one was killed while writing
                     afterCrash |-> lastLoad.kind = "crash",
                     \* the call before this one, with the same arguments, returned
                     again |-> lastLoad.kind = "call" /\ lastLoad.ret.kind = "return",
                     \* the file at the returned path was there before and is untouched
                     same |-> /\ r.ret.kind = "return"
                              /\ r.ret.path \in DOMAIN files
                              /\ r.ret.path \notin r.unlinked
                              /\ ~r.wrote]
    /\ UNCHANGED <<flowVars, riVars, today, loadArgs, fnVars, rawVars>>

\* what a to_csv that is killed part-way (line 369) leaves of the bytes: the file is
\* opened for writing and holds some of the lines, not all
Truncated(bytes) == {SubSeq(bytes, 1, k) : k \in 0..(Len(bytes) - 1)}

\* a call of load_to_local that gets as far as data.to_csv(full_path) and is killed
\* there: nothing is returned, the file at full_path is left truncated
load_to_local_crash ==
    /\ pc = "idle"
    /\ loadArgs # NoCall
    /\ \E stuck \in SUBSET (IF loadArgs.delete_existing_csvs
                            THEN GlobCsv(files, loadArgs.restrict_delete_to_prefix)
                            ELSE {}) :
          \E r \in {load_to_local_body(today, dirExists, files, loadArgs, stuck)} :
              /\ r.wrote
              /\ \E part \in Truncated(r.files[r.ret.path]) :
                    files' = With(r.files, r.ret.path, part)
              /\ dirExists' = r.dirExists
              /\ lastLoad' =
                    [kind |-> "crash", ret |-> Raise(TRUE, <<>>, {}, "killed").ret,
                     unlinked |-> r.unlinked, wrote |-> TRUE,
                     hadDir |-> dirExists, before |-> DOMAIN files, was |-> files,
                     afterCrash |-> lastLoad.kind = "crash",
                     again |-> FALSE, same |-> FALSE]
    /\ UNCHANGED <<flowVars, riVars, today, loadArgs, fnVars, rawVars>>

----------------------------------------------------------------------------
(* upload_to_server *)

\* what the try block of upload_to_server can meet once a local file is chosen
UploadOutcomes ==
    {"AuthenticationException", "SSHException", "Exception", "size mismatch", "ok"}

UploadFailures ==
    {"no csv found", "local file not found", "AuthenticationException",
     "SSHException", "Exception", "size mismatch"}

\* what the network does to a call that gets as far as connecting: one of the
\* outcomes above, the exceptions arriving before sftp.put (line 463) writes, or an
\* exception that leaves sftp.put after it began to write: the connection is lost
\* (SSHException), or put's own stat finds another size (IOError, an Exception)
PutInterrupted == {"SSHException while put writes", "Exception while put writes"}
\* sftp.put has returned, the whole file is on the server, and the size check that
\* follows (lines 467-468: os.path.getsize, sftp.stat) raises
StatInterrupted == {"SSHException after put", "Exception after put"}
UploadNet == UploadOutcomes \cup PutInterrupted \cup StatInterrupted

\* upload_to_server(csv_file_path): csv_file_path is {} for None, else {a file name};
\* pick is the file glob lists first, net what the network does.
\* sent is the file sftp.put began to write; a put that does not end well leaves
\* an incomplete file at remote_path, a put that returned leaves the whole file.
\* Every path returns None (lines 416, 424, 471, 474, 485, 488, 491).
upload_to_server_body(dir, rem, csv_file_path, pick, net) ==
    LET matches == GlobCsv(dir, "Viljoenbev_")
    IN  IF csv_file_path = {} /\ matches = {}
        THEN [outcome |-> "no csv found", sent |-> {}, ret |-> None, remote |-> rem]
        ELSE
        LET path == IF csv_file_path = {} THEN pick ELSE CHOOSE f \in csv_file_path : TRUE
        IN  IF path \notin DOMAIN dir
            THEN [outcome |-> "local file not found", sent |-> {}, ret |-> None,
                  remote |-> rem]
            ELSE IF net \in {"ok", "size mismatch"}
            THEN [outcome |-> net, sent |-> {path}, ret |-> None,
                  remote |-> With(rem, path,
                                  [bytes |-> dir[path], complete |-> net = "ok"])]
            ELSE IF net \in PutInterrupted
            THEN [outcome |-> IF net = "SSHException while put writes"
                              THEN "SSHException" ELSE "Exception",
                  sent |-> {path}, ret |-> None,
                  remote |-> With(rem, path, [bytes |-> dir[path], complete |-> FALSE])]
            ELSE IF net \in StatInterrupted
            THEN [outcome |-> IF net = "SSHException after put"
                              THEN "SSHException" ELSE "Exception",
                  sent |-> {path}, ret |-> None,
                  remote |-> With(rem, path, [bytes |-> dir[path], complete |-> TRUE])]
            ELSE [outcome |-> net, sent |-> {}, ret |-> None, remote |-> rem]

----------------------------------------------------------------------------
(* master_flow *)

DownloadErrors == {"FileNotFoundError", "Exception"}

\* download_data has not been run in this flow run
NotRun == [state |-> "NotRun", runs |-> 0]

NoUpload == [outcome |-> "not called", sent |-> {}, ret |-> None]

\* @flow master_flow is entered: by the cron schedule of line 672, again after a run ended
master_flow_start ==
    /\ pc \in {"idle", "finished", "aborted"}
    /\ pc' = "download"
    /\ trace' = <<>>
    /\ dl' = "not called"
    /\ dlTask' = NotRun
    /\ report' = Nothing
    /\ up' = NoUpload
    /\ outcome' = "running"
    /\ riPc' = "idle"
    /\ client' = "none"
    /\ execLog' = <<>>
    /\ testRes' = Nothing
    /\ mainRes' = Nothing
    /\ result' = Nothing
    /\ caught' = <<>>
    /\ UNCHANGED <<remote, today, stageVars, fnVars, rawVars>>

\* line 52: @task(name='Download data from FTP server', retries=3)
retries == 3

\* the task run as the engine sees it once the task function, run `runs` times
\* before, has ended: a function that returns completes the task run; one that
\* raises is run again while retries are left and fails the task run after that
TaskRun(how, runs) ==
    IF how # "raised" THEN [state |-> "Completed", runs |-> runs + 1]
    ELSE IF runs < retries THEN [state |-> "AwaitingRetry", runs |-> runs + 1]
    ELSE [state |-> "Failed", runs |-> runs + 1]

\* line 641: download_data(), run by the engine; its return value is not looked at
download_data ==
    /\ pc = "download"
    /\ trace' = IF dlTask.runs = 0 THEN Append(trace, "Download") ELSE trace
    /\ \E how \in {"ok", "raised"} \cup DownloadErrors :
          /\ dl' = how
          \* an exception before the try block (block loading, the AttributeError of
          \* data_dir.mkdir at line 70) leaves the task function; the errors of lines
          \* 131-136 are logged and None is returned
          /\ dlTask' = TaskRun(how, dlTask.runs)
          /\ pc' = CASE TaskRun(how, dlTask.runs).state = "Completed" -> "extract"
                      [] TaskRun(how, dlTask.runs).state = "AwaitingRetry" -> "download"
                      [] OTHER -> "aborted"
          /\ outcome' = IF TaskRun(how, dlTask.runs).state = "Failed"
                        THEN "raised in Download" ELSE outcome
    /\ UNCHANGED <<report, up, remote, riVars, today, stageVars, fnVars, rawVars>>

\* line 644: raw_data = extract_data()
extract_data ==
    /\ pc = "extract"
    /\ trace' = Append(trace, "Extract")
    /\ \E raised \in BOOLEAN :
          /\ pc' = IF raised THEN "aborted" ELSE "transform"
          /\ outcome' = IF raised THEN "raised in Extract" ELSE outcome
    /\ UNCHANGED <<dl, dlTask, report, up, remote, riVars, today, stageVars, fnVars, rawVars>>

\* line 647: clean_df = transform_data(raw_data); KeyError on a missing source column
transform_data ==
    /\ pc = "transform"
    /\ trace' = Append(trace, "Transform")
    /\ \E raised \in BOOLEAN :
          /\ pc' = IF raised THEN "aborted" ELSE "validate"
          /\ outcome' = IF raised THEN "raised in Transform" ELSE outcome
    /\ UNCHANGED <<dl, dlTask, report, up, remote, riVars, today, stageVars, fnVars, rawVars>>

\* validate_data (processors.py:416-427): SchemaErrors is caught, the failure cases
\* are printed, and the function returns either way
validate_data_returns(n) == TRUE

\* line 650: validate_data(clean_df)
validate_data ==
    /\ pc = "validate"
    /\ trace' = Append(trace, "Validate")
    /\ \/ \* processors.py imports neither pandera (pa) nor Series: as the file
          \* stands the class statement of line 380 raises NameError before any
          \* check is made, and master_flow, which has no handler, ends at line 650
          /\ report' = <<0>>
          /\ pc' = "aborted"
          /\ outcome' = "raised in Validate"
       \/ \* with pa and Series bound the schema is checked and n failure cases found
          \E n \in 0..MaxViolations :
             /\ report' = <<n>>
             \* line 653 (load_to_local) is commented out: line 654, upload_to_server(),
             \* is next
             /\ pc' = IF validate_data_returns(n) THEN "upload" ELSE "aborted"
             /\ outcome' = IF validate_data_returns(n) THEN outcome
                           ELSE "raised in Validate"
    /\ UNCHANGED <<dl, dlTask, up, remote, riVars, today, stageVars, fnVars, rawVars>>

\* line 654: upload_to_server() with no argument
upload_to_server ==
    /\ pc = "upload"
    /\ trace' = Append(trace, "Upload")
    /\ \/ \* an exception before the try block (block loading) leaves the task
          /\ pc' = "aborted"
          /\ up' = [outcome |-> "raised", sent |-> {}, ret |-> None]
          /\ outcome' = "raised in Upload"
          /\ UNCHANGED remote
       \/ \E net \in UploadNet :
          \E pick \in (IF GlobCsv(files, "Viljoenbev_") = {} THEN {None}
                       ELSE GlobCsv(files, "Viljoenbev_")) :
             LET r == upload_to_server_body(files, remote, {}, pick, net)
             IN  /\ up' = [outcome |-> r.outcome, sent |-> r.sent, ret |-> r.ret]
                 /\ remote' = r.remote
                 \* the returned value is dropped; line 657, run_import(), is next
                 /\ pc' = "trigger"
                 /\ UNCHANGED outcome
    /\ UNCHANGED <<dl, dlTask, report, riVars, today, stageVars, fnVars, rawVars>>

----------------------------------------------------------------------------
(* run_import *)

\* lines 540-543: both entries hold the same command line
commands ==
    [test |-> "importtxns.pl /home/viljoenbev/data 1",
     run  |-> "importtxns.pl /home/viljoenbev/data 1"]

\* recv_exit_status(): the remote exit status, -1 when the server sent none
ExitCodes == {-1, 0, 3}
\* what a command writes: (stdout lines, stderr lines)
Outputs == {<<<<>>, <<>>>>, <<<<"Working on file">>, <<"warning: skipped line">>>>}
\* str(e) of an exception caught at line 603
ErrorMessages == {"timed out"}

\* line 605: return "", str(e), -1
OnException(msg) == <<<<>>, <<msg>>, -1>>

\* lines 528-552: the credentials are loaded and the client object is made
run_import_begin ==
    /\ pc = "trigger"
    /\ riPc = "idle"
    /\ trace' = Append(trace, "Trigger")
    /\ \E loaded \in BOOLEAN :
          IF loaded
          THEN /\ client' = "created"
               /\ riPc' = "connect"
               /\ UNCHANGED <<pc, outcome>>
          ELSE \* an exception before the try block leaves the task and the flow
               /\ riPc' = "raised"
               /\ pc' = "aborted"
               /\ outcome' = "raised in Trigger"
               /\ UNCHANGED client
    /\ UNCHANGED <<dl, dlTask, report, up, remote, execLog, testRes, mainRes, result,
                   caught, today, stageVars, fnVars, rawVars>>

\* lines 557-567: client.connect(...)
run_import_connect ==
    /\ riPc = "connect"
    /\ \/ /\ client' = "open"
          /\ riPc' = "exec_test"
          /\ UNCHANGED <<result, caught>>
       \/ \E msg \in ErrorMessages :
          /\ result' = OnException(msg)
          /\ caught' = <<msg>>
          /\ riPc' = "finally"
          /\ UNCHANGED client
    /\ UNCHANGED <<flowVars, execLog, testRes, mainRes, today, stageVars, fnVars, rawVars>>

\* lines 572 and 587: client.exec_command(commands[slot], timeout=timeout)
exec_command(slot, here, next) ==
    /\ riPc = here
    /\ \/ /\ execLog' = Append(execLog, [slot |-> slot, cmd |-> commands[slot]])
          /\ riPc' = next
          /\ UNCHANGED <<result, caught>>
       \/ \E msg \in ErrorMessages :
          /\ result' = OnException(msg)
          /\ caught' = <<msg>>
          /\ riPc' = "finally"
          /\ UNCHANGED execLog
    /\ UNCHANGED <<flowVars, client, testRes, mainRes, today, stageVars, fnVars, rawVars>>

run_import_exec_test == exec_command("test", "exec_test", "read_test")

\* a run_import that does not look at the test command's exit status
AfterTest_ignores_status(exit_status) == "exec_run"

\* the position after the test command's output is captured (lines 577-582)
AfterTest(exit_status) == IF exit_status # 0 THEN "finally" ELSE "exec_run"

\* lines 573-580: exit status and output of the test command
run_import_read_test ==
    /\ riPc = "read_test"
    /\ \/ \E o \in Outputs, k \in ExitCodes :
          /\ testRes' = <<o[1], o[2], k>>
          /\ riPc' = AfterTest(k)
          /\ result' = IF AfterTest(k) = "finally" THEN <<o[1], o[2], k>> ELSE result
          /\ UNCHANGED caught
       \/ \E msg \in ErrorMessages :
          /\ result' = OnException(msg)
          /\ caught' = <<msg>>
          /\ riPc' = "finally"
          /\ UNCHANGED testRes
    /\ UNCHANGED <<flowVars, client, execLog, mainRes, today, stageVars, fnVars, rawVars>>

run_import_exec_run == exec_command("run", "exec_run", "read_run")

\* a run_import whose last return hands back what the test command printed
ReturnOfRun_keeps_test(test, main) == test

\* line 601: return stdout_str, stderr_str, exit_status
ReturnOfRun(test, main) == main

\* lines 588-601: exit status and output of the run command
run_import_read_run ==
    /\ riPc = "read_run"
    /\ \/ \E o \in Outputs, k \in ExitCodes :
          /\ mainRes' = <<o[1], o[2], k>>
          /\ result' = ReturnOfRun(testRes, <<o[1], o[2], k>>)
          /\ UNCHANGED caught
          /\ riPc' = "finally"
       \/ \E msg \in ErrorMessages :
          /\ result' = OnException(msg)
          /\ caught' = <<msg>>
          /\ riPc' = "finally"
          /\ UNCHANGED mainRes
    /\ UNCHANGED <<flowVars, client, execLog, testRes, today, stageVars, fnVars, rawVars>>

\* a run_import without the client.close() of the finally block
Finally_leaks(c) == c

\* lines 607-611: the finally block; what it leaves the client as
Finally(c) == "closed"

\* the finally block runs, then run_import returns result to master_flow
run_import_finally ==
    /\ riPc = "finally"
    /\ client' = Finally(client)
    /\ riPc' = "returned"
    /\ UNCHANGED <<flowVars, execLog, testRes, mainRes, result, caught, today,
                   stageVars, fnVars, rawVars>>

\* lines 657-662: the triple is classified and logged, then the final line is logged
master_flow_finish ==
    /\ pc = "trigger"
    /\ riPc = "returned"
    /\ pc' = "finished"
    /\ outcome' = "Finished Successfully"
    /\ UNCHANGED <<trace, dl, dlTask, report, up, remote, riVars, today, stageVars, fnVars, rawVars>>

----------------------------------------------------------------------------
(* Specifications *)

\* tables that earlier load_to_local calls staged on day t
EarlierTables(t) ==
    {[hasDate |-> TRUE, Date |-> <<Strftime_Ymd(t)>>],
     [hasDate |-> TRUE, Date |-> <<Strftime_Ymd(t - lookback_days), Strftime_Ymd(t)>>]}

RECURSIVE StagedBy(_, _)
\* OUTPUT_DIR after load_to_local(df, delete_existing_csvs=False) for each df of T
StagedBy(t, T) ==
    IF T = {} THEN <<>>
    ELSE LET df == CHOOSE x \in T : TRUE
         IN  load_to_local_body(t, TRUE, StagedBy(t, T \ {df}),
                                LoadArgs(df, TRUE, FALSE, None), {}).files

InitRun ==
    /\ pc = "idle"
    /\ trace = <<>>
    /\ dl = "not called"
    /\ dlTask = NotRun
    /\ report = Nothing
    /\ up = NoUpload
    /\ outcome = "no run"
    /\ riPc = "idle"
    /\ client = "none"
    /\ execLog = <<>>
    /\ testRes = Nothing
    /\ mainRes = Nothing
    /\ result = Nothing
    /\ caught = <<>>
    /\ lastLoad = NoCall
    /\ remote = <<>>

\* the pipeline: OUTPUT_DIR holds what earlier load_to_local calls left there
EarlierDir(T) ==
    /\ files = StagedBy(today, T)
    /\ dirExists = (T # {})

\* no function is called on its own
NoFunction ==
    /\ fnIn = NoCall
    /\ fnOut = Nothing

\* the raw directory is not looked at
NoRawDir ==
    /\ rawDir = <<>>
    /\ lastDownload = NoCall

Init ==
    /\ InitRun
    /\ NoFunction
    /\ NoRawDir
    /\ today \in Todays
    /\ loadArgs = NoCall
    /\ \E T \in SUBSET EarlierTables(today) : EarlierDir(T)

Next ==
    \/ master_flow_start
    \/ download_data
    \/ extract_data
    \/ transform_data
    \/ validate_data
    \/ upload_to_server
    \/ run_import_begin
    \/ run_import_connect
    \/ run_import_exec_test
    \/ run_import_read_test
    \/ run_import_exec_run
    \/ run_import_read_run
    \/ run_import_finally
    \/ master_flow_finish

Spec == Init /\ [][Next]_vars

\* the task load_to_local called with one table and one setting of its flags,
\* again and again on one day, on what earlier calls left in OUTPUT_DIR
\* a CSV file of OUTPUT_DIR that another job wrote there: "*.csv" matches it and so
\* does f"{restrict_delete_to_prefix}*.csv" for the prefix "Other_"
OtherCsv == [prefix |-> "Other_", min |-> <<>>, max |-> <<>>, ext |-> "csv"]

InitStage ==
    /\ InitRun
    /\ NoFunction
    /\ NoRawDir
    /\ today \in Todays
    /\ \E T \in SUBSET EarlierTables(today), other \in BOOLEAN :
          /\ files = IF other THEN With(StagedBy(today, T), OtherCsv, <<>>)
                              ELSE StagedBy(today, T)
          /\ dirExists = (T # {} \/ other)
    /\ \E df \in Tables(today), c \in BOOLEAN, d \in BOOLEAN, p \in Prefixes :
          loadArgs = LoadArgs(df, c, d, p)

NextStage ==
    \/ load_to_local
    \/ load_to_local_crash

SpecStage == InitStage /\ [][NextStage]_vars

----------------------------------------------------------------------------
(* Functions called on their own.  fnIn holds the name of the function and   *)
(* its arguments, fnOut is <<>> until the call is made and then holds what   *)
(* the call returned or raised.                                              *)

\* the pipeline and the staging directory stand still
NoRun ==
    /\ InitRun
    /\ NoRawDir
    /\ loadArgs = NoCall
    /\ files = <<>>
    /\ dirExists = FALSE

\* the call is made once
Call(kind, value) ==
    /\ fnIn.kind = kind
    /\ fnOut = Nothing
    /\ fnOut' = <<value>>
    /\ UNCHANGED <<flowVars, riVars, today, stageVars, fnIn, rawVars>>

\* validate_dates: today is any day from 29 December 2023 to 5 March 2025 (every
\* turn of a month, a leap February and a common one), the dates lie up to six
\* weeks before it or a day after it, lookback_days is 0, 3 (line 353) or 40
GateTodays == 28..460
GateOffsets == {-41, -40, -30, -4, -3, -1, 0, 1}
GateLookbacks == {0, lookback_days, 40}
GateDates(t) == {t + o : o \in GateOffsets} \cap Nat

InitDates ==
    /\ NoRun
    /\ today \in GateTodays
    /\ \E a \in GateDates(today), b \in GateDates(today), k \in GateLookbacks :
          fnIn = [kind |-> "validate_dates", min_d |-> a, max_d |-> b,
                  today_d |-> today, lookback |-> k]
    /\ fnOut = Nothing

call_validate_dates ==
    Call("validate_dates",
         validate_dates(fnIn.min_d, fnIn.max_d, fnIn.today_d, fnIn.lookback))

NextDates == call_validate_dates

SpecDates == InitDates /\ [][NextDates]_vars

----------------------------------------------------------------------------
(* parse_perl_output.  A text is the sequence of its lines (splitlines), a   *)
(* line the sequence of its words, " " being a run of blanks.                *)

MaxLines == 3

\* a lower() that leaves capitals as they are
Lower_keeps_case(w) == w

\* str.lower() of a word
Lower(w) ==
    CASE w = "Warning:" -> "warning:"
      [] w = "ERROR" -> "error"
      [] w = "Working" -> "working"
      [] OTHER -> w

\* key in line.lower(), for the keys "warning" and "error"
Contains(line, key) ==
    \E i \in DOMAIN line :
        \/ key = "warning" /\ Lower(line[i]) \in {"warning", "warning:"}
        \/ key = "error" /\ Lower(line[i]) \in {"error", "errors"}

RECURSIVE Strip(_)
\* line.strip(): what is left of a line without the blanks at its two ends
Strip(line) ==
    IF line # <<>> /\ line[1] = " " THEN Strip(Tail(line))
    ELSE IF line # <<>> /\ line[Len(line)] = " "
    THEN Strip(SubSeq(line, 1, Len(line) - 1))
    ELSE line

Range(q) == {q[i] : i \in DOMAIN q}

\* lines 615-629
parse_perl_output(stdout, stderr, exit_code) ==
    LET working_messages == SelectSeq(stdout, LAMBDA line : Strip(line) # <<>>)
        stderr_lines == SelectSeq(stderr, LAMBDA line : Strip(line) # <<>>)
        warnings == SelectSeq(stderr_lines, LAMBDA warn : Contains(warn, "warning"))
        errors == SelectSeq(stderr_lines, LAMBDA err : Contains(err, "error"))
        other_stderr ==
            SelectSeq(stderr_lines, LAMBDA serr : serr \notin Range(warnings \o errors))
    IN  [working_on |-> working_messages,
         warnings |-> warnings,
         errors |-> errors,
         other_stderr |-> other_stderr,
         exit_code |-> exit_code]

\* the lines the import script and the shell are seen to print, blank ones among them
StderrLines ==
    {<<>>, <<" ">>, <<"Working", "file">>, <<"Warning:", " ", "file">>,
     <<"ERROR", " ", "file">>, <<"file", " ", "errors">>,
     <<"Warning:", " ", "ERROR">>}
StdoutTexts == {<<>>, <<<<"Working", "file">>, <<" ">>>>, <<<<>>, <<"file">>>>}

InitParse ==
    /\ NoRun
    /\ today \in {SetMin(Todays)}
    /\ \E out \in StdoutTexts, err \in SeqsUpTo(StderrLines, MaxLines), k \in ExitCodes :
          fnIn = [kind |-> "parse_perl_output", stdout |-> out, stderr |-> err,
                  exit_code |-> k]
    /\ fnOut = Nothing

call_parse_perl_output ==
    Call("parse_perl_output",
         parse_perl_output(fnIn.stdout, fnIn.stderr, fnIn.exit_code))

NextParse == call_parse_perl_output

SpecParse == InitParse /\ [][NextParse]_vars

----------------------------------------------------------------------------
(* The three transform functions, as far as the Date column goes: the other  *)
(* target columns are copied or computed from source columns other than     *)
(* Date.  hasDate = FALSE stands for a table that lacks a source column.     *)

\* pandas' missing value in a column of strings
NaN == <<>>

\* strftime("%Y-%d-%m"): year, two-digit day, two-digit month
Strftime_Ydm(n) == <<DateOf(n).y>> \o Pad2(DateOf(n).d) \o Pad2(DateOf(n).m)

\* the raw tables: Date cells are date strings around today, other text or missing
RawCells(t) == Cells(t) \cup {NaN}
RawTables(t) ==
    {[hasDate |-> TRUE, Date |-> q] : q \in SeqsUpTo(RawCells(t), MaxRows) \ {<<>>}}
    \cup {[hasDate |-> FALSE, Date |-> <<>>]}

\* pd.to_datetime(column) with errors="raise", the default, raises on these columns
Unparseable(column) ==
    \E i \in DOMAIN column : column[i] # NaN /\ to_datetime(column[i]) = NaT

\* pd.to_datetime(column, errors="coerce").dt.strftime(format)
coerce_strftime(column, format) ==
    [i \in DOMAIN column |->
        IF to_datetime(column[i]) = NaT THEN NaN
        ELSE IF format = "%Y-%d-%m" THEN Strftime_Ydm(SetMin(to_datetime(column[i])))
        ELSE Strftime_Ymd(SetMin(to_datetime(column[i])))]

Returned(column) == [kind |-> "return", Date |-> column]
Raised(exc) == [kind |-> "raise", exc |-> exc]

\* src/main.py, lines 214-273
transform_data_body(df) ==
    IF ~df.hasDate THEN Raised("KeyError")
    \* line 262: df2['Date']=pd.to_datetime(df2['Date'])
    ELSE IF Unparseable(df.Date) THEN Raised("ValueError: unknown datetime string format")
    \* line 270
    ELSE Returned(coerce_strftime(df.Date, "%Y-%d-%m"))

\* src/utils/processors.py, lines 429-486: the file never imports numpy, so line 473
\* (np.sum) raises NameError on every table that has the source columns, before
\* the date lines 476-483 are reached
processors_transform_data(df) ==
    IF ~df.hasDate THEN Raised("KeyError")
    ELSE Raised("NameError: name 'np' is not defined")

\* src/scripts/clean_viljoen.py, lines 14-52
transform_viljoen(df) ==
    IF ~df.hasDate THEN Raised("KeyError")
    \* line 48
    ELSE Returned(coerce_strftime(df.Date, "%Y-%m-%d"))

TransformNames ==
    {"main.transform_data", "processors.transform_data", "clean_viljoen.transform_viljoen"}

InitTransform ==
    /\ NoRun
    /\ today \in Todays
    /\ \E f \in TransformNames, df \in RawTables(today) : fnIn = [kind |-> f, df |-> df]
    /\ fnOut = Nothing

call_transform_data == Call("main.transform_data", transform_data_body(fnIn.df))

call_processors_transform_data ==
    Call("processors.transform_data", processors_transform_data(fnIn.df))

call_transform_viljoen ==
    Call("clean_viljoen.transform_viljoen", transform_viljoen(fnIn.df))

NextTransform ==
    \/ call_transform_data
    \/ call_processors_transform_data
    \/ call_transform_viljoen

SpecTransform == InitTransform /\ [][NextTransform]_vars

----------------------------------------------------------------------------
(* download_data on the local raw directory, run after run, the days going  *)
(* by: the function of src/scripts/clean_viljoen.py (lines 118-205), whose  *)
(* data_dir is a Path, and the one of src/main.py (lines 52-148), which has *)
(* the same body but raises at line 70 before it gets to it.  The content   *)
(* of a file is the run that wrote it (0: before the first run) and whether *)
(* all of it was written.                                                   *)

MaxRuns == 3
MaxDays == 2

\* data_dir / f"Vilbev-{current_date}.zip", current_date being strftime('%Y%m%d')
ZipName(t) == [prefix |-> "Vilbev-", date |-> Strftime_Ymd(t), ext |-> "zip"]

\* a cleanup that finds nothing to delete
GlobZip_none(dir) == {}

\* data_dir.glob("Vilbev-*.zip")
GlobZip(dir) == {f \in DOMAIN dir : f.prefix = "Vilbev-" /\ f.ext = "zip"}

\* what connect and sftp.get can meet; sftp.get opens the local file for writing
\* before it asks the server for the remote one
TransferOutcomes == {"ok", "connect failed", "FileNotFoundError", "transfer error"}

\* download_data of src/main.py: data_dir is config_paths['BASE_DIR'], the str the
\* JSON block holds, and line 70 calls .mkdir on it: AttributeError on every call,
\* outside the try, before the cleanup; the raw directory stays as it was
main_download_data_body(dir) ==
    [raised |-> "AttributeError: 'str' object has no attribute 'mkdir'", files |-> dir]

\* download_data of src/scripts/clean_viljoen.py (data_dir = Path("./data/raw")) on
\* day t as run number run: stuck are the files of the glob whose unlink fails,
\* stuck2 says that the unlink of the target path fails, net is what the connection
\* and the transfer meet
download_data_body(t, dir, run, stuck, stuck2, net) ==
    LET local_file == ZipName(t)
        afterGlob == Without(dir, GlobZip(dir) \ stuck)
        atTransfer == IF local_file \in DOMAIN afterGlob /\ ~stuck2
                      THEN Without(afterGlob, {local_file})
                      ELSE afterGlob
    IN  [atTransfer |-> atTransfer,
         failed |-> GlobZip(dir) \cap DOMAIN atTransfer,
         files |->
            IF net = "connect failed" THEN atTransfer
            ELSE With(atTransfer, local_file, [run |-> run, complete |-> net = "ok"])]

\* one run of the body on the raw directory as the runs before left it
download_data_call ==
    /\ lastDownload.n < MaxRuns
    /\ \E stuck \in SUBSET GlobZip(rawDir), stuck2 \in BOOLEAN, net \in TransferOutcomes :
          LET r == download_data_body(today, rawDir, lastDownload.n + 1, stuck, stuck2, net)
          IN  /\ rawDir' = r.files
              /\ lastDownload' =
                    [kind |-> "call", n |-> lastDownload.n + 1, net |-> net,
                     day |-> today,
                     before |-> rawDir, atTransfer |-> DOMAIN r.atTransfer,
                     failed |-> r.failed]
    /\ UNCHANGED <<flowVars, riVars, today, stageVars, fnVars>>

\* one call of download_data of src/main.py: it raises before it touches anything
main_download_data_call ==
    /\ lastDownload.n < MaxRuns
    /\ \E r \in {main_download_data_body(rawDir)} :
          /\ rawDir' = r.files
          /\ lastDownload' =
                [kind |-> "raise", exc |-> r.raised, n |-> lastDownload.n + 1,
                 day |-> today, before |-> rawDir]
    /\ UNCHANGED <<flowVars, riVars, today, stageVars, fnVars>>

\* datetime.now() moves on to the next day
midnight ==
    /\ today < SetMin(Todays) + MaxDays
    /\ today' = today + 1
    /\ UNCHANGED <<flowVars, riVars, stageVars, fnVars, rawVars>>

\* what may lie in the raw directory before the first run
EarlierRaw(t) ==
    {ZipName(t - 1), ZipName(t), [prefix |-> "notes", date |-> <<>>, ext |-> "txt"],
     [prefix |-> "Vilbev-", date |-> Strftime_Ymd(t - 1), ext |-> "csv"]}

InitDownload ==
    /\ InitRun
    /\ NoFunction
    /\ loadArgs = NoCall
    /\ files = <<>>
    /\ dirExists = FALSE
    /\ today = SetMin(Todays)
    /\ \E S \in SUBSET EarlierRaw(today) :
          rawDir = [f \in S |-> [run |-> 0, complete |-> TRUE]]
    /\ lastDownload = [kind |-> "no run yet", n |-> 0]

NextDownload ==
    \/ download_data_call
    \/ main_download_data_call
    \/ midnight

SpecDownload == InitDownload /\ [][NextDownload]_vars

----------------------------------------------------------------------------
(* get_latest_zip (src/utils/processors.py lines 171-190, src/utils.py      *)
(* lines 179-198).  A directory is the sequence of its entries in the order  *)
(* glob yields them, an entry a file name with its modification time.        *)

MaxMtime == 2

ZipNames ==
    {[prefix |-> "Vilbev-", date |-> "A", ext |-> "zip"],
     [prefix |-> "Vilbev-", date |-> "B", ext |-> "zip"],
     [prefix |-> "notes", date |-> "", ext |-> "txt"]}

Entries == [name : ZipNames, mtime : 1..MaxMtime]

\* the directories with files of these names, in every order glob may yield them
Listings ==
    {q \in SeqsUpTo(Entries, Cardinality(ZipNames)) :
        \A i \in DOMAIN q, j \in DOMAIN q : i # j => q[i].name # q[j].name}

RECURSIVE sorted_latest_first(_)
\* sorted(paths, key=os.path.getmtime, reverse=True): a stable sort, paths of one
\* modification time stay in the order they had
sorted_latest_first(paths) ==
    IF paths = <<>> THEN <<>>
    ELSE LET rest == sorted_latest_first(Tail(paths))
             x == Head(paths)
             \* x goes before the first file of rest that is not newer than x
             later == {i \in DOMAIN rest : rest[i].mtime =< x.mtime}
             at == IF later = {} THEN Len(rest) + 1 ELSE SetMin(later)
         IN  SubSeq(rest, 1, at - 1) \o <<x>> \o SubSeq(rest, at, Len(rest))

\* a get_latest_zip that takes the first file glob yields
get_latest_zip_unsorted(directory) ==
    LET found == SelectSeq(directory,
                           LAMBDA e : e.name.prefix = "Vilbev-" /\ e.name.ext = "zip")
    IN  IF found = <<>> THEN Raised("FileNotFoundError")
        ELSE [kind |-> "return", latest |-> found[1].name]

\* get_latest_zip(directory) with the default pattern "Vilbev-*.zip"
get_latest_zip(directory) ==
    LET found == SelectSeq(directory,
                           LAMBDA e : e.name.prefix = "Vilbev-" /\ e.name.ext = "zip")
        files_sorted == sorted_latest_first(found)
    IN  IF found = <<>> THEN Raised("FileNotFoundError")
        ELSE [kind |-> "return", latest |-> files_sorted[1].name]

InitLatest ==
    /\ NoRun
    /\ today = SetMin(Todays)
    /\ \E d \in Listings : fnIn = [kind |-> "get_latest_zip", directory |-> d]
    /\ fnOut = Nothing

call_get_latest_zip == Call("get_latest_zip", get_latest_zip(fnIn.directory))

NextLatest == call_get_latest_zip

SpecLatest == InitLatest /\ [][NextLatest]_vars

----------------------------------------------------------------------------
(* extract_data (src/main.py lines 153-208) on the archive get_latest_zip    *)
(* returned.  An archive is the sequence of its entries in namelist() order, *)
(* each with a name of its own and with whether pd.read_csv can decode it.   *)

MaxEntries == 3

ArchiveNames ==
    {[stem |-> "sales", ext |-> "csv"], [stem |-> "SALES", ext |-> "CSV"],
     [stem |-> "readme", ext |-> "txt"], [stem |-> "old", ext |-> "csv.bak"]}

Archives ==
    {q \in SeqsUpTo([name : ArchiveNames, decodes : BOOLEAN], MaxEntries) :
        \A i \in DOMAIN q, j \in DOMAIN q : i # j => q[i].name # q[j].name}

\* f.lower().endswith(".csv")
EndsWithCsv(name) ==
    (CASE name.ext = "CSV" -> "csv" [] name.ext = "Csv" -> "csv" [] OTHER -> name.ext) = "csv"

\* an extract_data that takes the last CSV of the archive
extract_data_last_csv(archive) ==
    LET csv_files == SelectSeq(archive, LAMBDA e : EndsWithCsv(e.name))
    IN  IF csv_files = <<>> THEN Raised("ValueError: No CSV file found inside ZIP")
        ELSE IF ~csv_files[Len(csv_files)].decodes
        THEN Raised("ValueError: Failed to read CSV inside ZIP")
        ELSE [kind |-> "return", df |-> csv_files[Len(csv_files)].name]

\* lines 170-208; the table returned is named by the entry it was read from
extract_data_body(archive) ==
    LET csv_files == SelectSeq(archive, LAMBDA e : EndsWithCsv(e.name))
    IN  IF csv_files = <<>> THEN Raised("ValueError: No CSV file found inside ZIP")
        \* lines 201-206: any exception of pd.read_csv is raised again as ValueError
        ELSE IF ~csv_files[1].decodes
        THEN Raised("ValueError: Failed to read CSV inside ZIP")
        ELSE [kind |-> "return", df |-> csv_files[1].name]

InitExtract ==
    /\ NoRun
    /\ today = SetMin(Todays)
    /\ \E a \in Archives : fnIn = [kind |-> "extract_data", archive |-> a]
    /\ fnOut = Nothing

call_extract_data == Call("extract_data", extract_data_body(fnIn.archive))

NextExtract == call_extract_data

SpecExtract == InitExtract /\ [][NextExtract]_vars

----------------------------------------------------------------------------
(* _ensure_remote_dir (src/main.py lines 495-511).  A path string is the    *)
(* sequence of its pieces, "/" being one piece and each name another; the   *)
(* remote file system is the set of its directories, each the sequence of   *)
(* names from the root, and the directory the SFTP session starts in.       *)

MaxPieces == 4

\* remote_dir_posix: "must be a POSIX-style path ending with '/'"
RemotePaths == {p \in SeqsUpTo({"/", "a", "b"}, MaxPieces) \ {<<>>} : p[Len(p)] = "/"}

\* the directory relative paths are resolved in: the home of the SFTP user
RemoteCwd == <<"home">>
RemoteTrees ==
    {{<<"home">>}, {<<"home">>, <<"a">>}, {<<"home">>, <<"a">>, <<"a", "b">>},
     {<<"home">>, <<"home", "a">>}}

\* the names of a path string, in order
NamesOf(path) == SelectSeq(path, LAMBDA x : x # "/")

\* the directory a path string names on the server
Resolve(path) ==
    IF path # <<>> /\ path[1] = "/" THEN NamesOf(path) ELSE RemoteCwd \o NamesOf(path)

RECURSIVE RStrip(_)
\* str.rstrip('/')
RStrip(path) ==
    IF path # <<>> /\ path[Len(path)] = "/" THEN RStrip(SubSeq(path, 1, Len(path) - 1))
    ELSE path

RECURSIVE ensure_loop(_, _, _, _, _)
\* lines 506-511: the loop over parts from index k on; calls are the requests sent,
\* dirs the directories of the server, readonly says that mkdir is refused
ensure_loop(parts, k, current, st, readonly) ==
    IF k > Len(parts) THEN [kind |-> "return", calls |-> st.calls, dirs |-> st.dirs]
    ELSE LET next == RStrip(current) \o <<"/", parts[k]>>
             stat == [op |-> "stat", path |-> next]
             mkdir == [op |-> "mkdir", path |-> next]
         IN  IF Resolve(next) \in st.dirs
             THEN ensure_loop(parts, k + 1, next,
                              [calls |-> Append(st.calls, stat), dirs |-> st.dirs], readonly)
             ELSE IF readonly
             THEN [kind |-> "raise", calls |-> st.calls \o <<stat, mkdir>>, dirs |-> st.dirs]
             ELSE ensure_loop(parts, k + 1, next,
                              [calls |-> st.calls \o <<stat, mkdir>>,
                               dirs |-> st.dirs \cup {Resolve(next)}], readonly)

\* _ensure_remote_dir(sftp, remote_dir_posix) on a server with the directories dirs
ensure_remote_dir(remote_dir_posix, dirs, readonly) ==
    LET parts == NamesOf(remote_dir_posix)
        prefix == IF remote_dir_posix[1] = "/" THEN <<"/">> ELSE <<>>
    IN  ensure_loop(parts, 1, prefix, [calls |-> <<>>, dirs |-> dirs], readonly)

InitEnsure ==
    /\ NoRun
    /\ today = SetMin(Todays)
    /\ \E p \in RemotePaths, d \in RemoteTrees, ro \in BOOLEAN :
          fnIn = [kind |-> "_ensure_remote_dir", remote_dir_posix |-> p, dirs |-> d,
                  readonly |-> ro]
    /\ fnOut = Nothing

call_ensure_remote_dir ==
    Call("_ensure_remote_dir",
         ensure_remote_dir(fnIn.remote_dir_posix, fnIn.dirs, fnIn.readonly))

NextEnsure == call_ensure_remote_dir

SpecEnsure == InitEnsure /\ [][NextEnsure]_vars

----------------------------------------------------------------------------
(* Claims C1-C10 *)

\* C1: in every run the stages are called in the order Download, Extract,
\* Transform, Validate, Stage, Upload, Trigger with none skipped; whenever Upload
\* is called, Stage was called just before it, after Validate.
C1_StagesInFixedOrder == IsPrefix(trace, StageOrder)

\* C2: load_to_local called a second time in a row with the same table and the
\* default flags, the first call having returned, returns saved = False and leaves
\* the file of the first call untouched.
C2_SecondCallSkips ==
    (lastLoad.kind = "call" /\ lastLoad.again /\ DefaultFlags(loadArgs))
        => (/\ lastLoad.ret.kind = "return"
            /\ ~lastLoad.ret.saved
            /\ lastLoad.same)

\* C3: when download_data fails (remote file not found, authentication,
\* connection or transfer error), Extract is not called in that run.
C3_DownloadFailureAborts == dl \in DownloadErrors => ~Executed("Extract")

\* C4: when upload_to_server fails, run_import is not called in that run.
C4_UploadFailureSkipsTrigger ==
    up.outcome \in UploadFailures => ~Executed("Trigger")

\* C5: run_import is called in a run only if load_to_local was called in that
\* run and returned saved = True.
C5_TriggerOnlyAfterNewFile ==
    Executed("Trigger")
        => (/\ Executed("Stage")
            /\ lastLoad.kind = "call"
            /\ lastLoad.ret.kind = "return"
            /\ lastLoad.ret.saved)

\* C6: every file upload_to_server sends is the file load_to_local wrote in the
\* current run, never one an earlier run left in OUTPUT_DIR.
C6_UploadSendsOnlyThisRunsFile ==
    \A f \in up.sent :
        /\ Executed("Stage")
        /\ lastLoad.kind = "call"
        /\ lastLoad.wrote
        /\ lastLoad.ret.path = f

\* validate_data reported at least one failure case
FoundViolations == Len(report) = 1 /\ report[1] > 0

RunIssued == \E i \in DOMAIN execLog : execLog[i].slot = "run"

\* C8: when the test command ended with an exit status k other than 0, the run
\* command is never issued on that connection and the triple run_import returns
\* is the test command's captured (stdout, stderr, k).
C8_FailedTestAborts ==
    (Len(testRes) = 3 /\ testRes[3] # 0)
        => (/\ ~RunIssued
            /\ mainRes = Nothing
            /\ riPc \in {"finally", "returned"}
            /\ result = testRes)

C8_Witness ==
    /\ riPc = "returned"
    /\ Len(testRes) = 3
    /\ testRes[3] = 3
    /\ testRes[1] # <<>>

\* C9: run_import goes connect, test command, run command, return: the run
\* command is issued only after the test command ended with exit status 0, it is
\* issued once, as the second command, and when its output is captured the triple
\* returned is the run command's own, whatever its exit status.
C9_RunOnlyAfterGoodTest ==
    /\ \A i \in DOMAIN execLog :
          execLog[i].slot = "run"
              => (/\ i = 2
                  /\ execLog[1].slot = "test"
                  /\ client # "created"
                  /\ Len(testRes) = 3
                  /\ testRes[3] = 0)
    /\ Len(execLog) =< 2
    /\ Len(mainRes) = 3
          => (/\ RunIssued
              /\ riPc \in {"finally", "returned"}
              /\ result = mainRes)

C9_Witness ==
    /\ riPc = "returned"
    /\ Len(mainRes) = 3
    /\ mainRes[3] = 3
    /\ mainRes[1] # testRes[1]

\* C10: whenever run_import has left, by a return or by an exception, an SSH
\* client it created is closed: after the run command, after a failed test
\* command, and after an exception or timeout in connect or in a command.
C10_ClientClosedOnExit ==
    (riPc \in {"returned", "raised"} /\ client # "none") => client = "closed"

C10_Witness ==
    /\ riPc = "returned"
    /\ client = "closed"
    /\ result = OnException("timed out")
    /\ Len(execLog) = 1

----------------------------------------------------------------------------
(* Claims C11-C20 *)

\* C11: run_import returns exit_code = -1 if and only if an exception was caught
\* during connect or command execution; the exit status of a remote command that
\* ran is never returned as -1.
C11_MinusOneIffException ==
    riPc = "returned" => (result[3] = -1 <=> caught # <<>>)

\* C12: validate_dates(min_d, max_d, today, lookback_days) returns exactly when
\* today - lookback_days <= min_d <= today and today - lookback_days <= max_d <= today
\* and the month of max_d is the month of today or the month before it, December
\* being the month before January; otherwise it raises, with the error of the
\* window when the window fails, whatever the month.
C12_GateAcceptsExactly ==
    (fnIn.kind = "validate_dates" /\ fnOut # Nothing) =>
        LET lo == fnIn.today_d - fnIn.lookback
            inWindow == /\ lo =< fnIn.min_d /\ fnIn.min_d =< fnIn.today_d
                        /\ lo =< fnIn.max_d /\ fnIn.max_d =< fnIn.today_d
            monthBefore == ((DateOf(fnIn.today_d).m + 10) % 12) + 1
            monthOk == DateOf(fnIn.max_d).m \in {DateOf(fnIn.today_d).m, monthBefore}
        IN  /\ fnOut = <<"ok">> <=> (inWindow /\ monthOk)
            /\ ~inWindow => fnOut = <<"ValueError: date range not within the last days">>
            /\ (inWindow /\ ~monthOk) => fnOut = <<"ValueError: latest file month">>

\* on 2 January 2024 a file whose dates are 30 December 2023 is accepted
C12_Witness ==
    /\ fnIn.kind = "validate_dates"
    /\ fnIn.today_d = 32 /\ fnIn.min_d = 29 /\ fnIn.max_d = 29 /\ fnIn.lookback = 3
    /\ fnOut = <<"ok">>

\* the dates of a table's Date column
TableDates(df) == UNION {to_datetime(df.Date[i]) : i \in DOMAIN df.Date}
AllParseable(df) ==
    /\ df.hasDate
    /\ df.Date # <<>>
    /\ \A i \in DOMAIN df.Date : to_datetime(df.Date[i]) # NaT
\* the directory of the call was there or could be created
DirAvailable == lastLoad.hadDir \/ loadArgs.create_dir_if_missing

\* the table of the call has a Date column with at least one date left after the
\* coercion and dropna of lines 343-351, and its range [min, max] is not inside
\* [today-3, today]
OutOfWindow ==
    /\ lastLoad.kind = "call"
    /\ loadArgs.df.hasDate
    /\ TableDates(loadArgs.df) # {}
    /\ ~(/\ today - 3 =< SetMin(TableDates(loadArgs.df))
         /\ SetMax(TableDates(loadArgs.df)) =< today)

\* C13 as stated: for every table whose date range is not inside [today-3, today],
\* load_to_local fails with the date-range error and creates no file in OUTPUT_DIR.
C13_OutOfWindowFailsWithRangeError ==
    OutOfWindow
        => (/\ lastLoad.ret.kind = "raise"
            /\ lastLoad.ret.exc = "ValueError: date range not within the last days"
            /\ ~lastLoad.wrote
            /\ DOMAIN files \subseteq lastLoad.before)

\* C13 amended: for every such table load_to_local fails and creates no file in
\* OUTPUT_DIR; the failure is the date-range error when OUTPUT_DIR exists or may be
\* created, and FileNotFoundError when it does not exist and
\* create_dir_if_missing is False.
C13_OutOfWindowFails ==
    OutOfWindow
        => (/\ lastLoad.ret.kind = "raise"
            /\ ~lastLoad.wrote
            /\ DOMAIN files \subseteq lastLoad.before
            /\ lastLoad.ret.exc =
                  IF DirAvailable
                  THEN "ValueError: date range not within the last days"
                  ELSE "FileNotFoundError: output directory does not exist")

\* a table with a lost cell and a date four days back was refused by the gate
C13_Witness ==
    /\ OutOfWindow
    /\ loadArgs.df.Date = <<Garbage, Strftime_Ymd(today - 4)>>
    /\ lastLoad.ret.kind = "raise"
    /\ lastLoad.ret.exc = "ValueError: date range not within the last days"

\* the table of the call has a parseable Date column whose dates pass the gate
PassesGate ==
    /\ lastLoad.kind = "call"
    /\ AllParseable(loadArgs.df)
    /\ validate_dates(SetMin(TableDates(loadArgs.df)), SetMax(TableDates(loadArgs.df)),
                      today, 3) = "ok"
\* Viljoenbev_{min_date}_to_{max_date}.csv, both dates as YYYY-MM-DD
NameOfTable(df) ==
    [prefix |-> "Viljoenbev_",
     min |-> <<DateOf(SetMin(TableDates(df))).y>> \o Pad2(DateOf(SetMin(TableDates(df))).m)
                 \o Pad2(DateOf(SetMin(TableDates(df))).d),
     max |-> <<DateOf(SetMax(TableDates(df))).y>> \o Pad2(DateOf(SetMax(TableDates(df))).m)
                 \o Pad2(DateOf(SetMax(TableDates(df))).d),
     ext |-> "csv"]

\* C14 as stated: for every table with a parseable Date column whose min and max
\* dates pass the gate, load_to_local (OUTPUT_DIR being there or creatable) writes
\* exactly one file, named Viljoenbev_{min_date}_to_{max_date}.csv.
C14_WritesExactlyOneFile ==
    (PassesGate /\ DirAvailable)
        => (/\ lastLoad.ret.kind = "return"
            /\ lastLoad.wrote
            /\ lastLoad.ret.path = NameOfTable(loadArgs.df)
            /\ DOMAIN files \ lastLoad.before \subseteq {NameOfTable(loadArgs.df)})

\* C14: for every table with a parseable Date column whose min and max dates pass
\* the gate, OUTPUT_DIR being there or creatable, load_to_local returns the path
\* Viljoenbev_{min_date}_to_{max_date}.csv, a function of the two dates only, and
\* creates no other file; it writes that file, with the table as content, unless
\* a file of that name is still there after the cleanup, and then it writes
\* nothing, leaves that file as it is and returns saved = False.
C14_WritesNamedFileUnlessThere ==
    (PassesGate /\ DirAvailable)
        => LET name == NameOfTable(loadArgs.df)
               there == name \in lastLoad.before \ lastLoad.unlinked
           IN  /\ lastLoad.ret.kind = "return"
               /\ lastLoad.ret.path = name
               /\ DOMAIN files \ lastLoad.before \subseteq {name}
               /\ name \in DOMAIN files
               /\ lastLoad.wrote <=> ~there
               /\ lastLoad.ret.saved = lastLoad.wrote
               /\ lastLoad.wrote => files[name] = CsvBytes(loadArgs.df)
               /\ there => lastLoad.same

\* a table from three days back to today was written under its name
C14_Witness ==
    /\ PassesGate
    /\ loadArgs.df.Date = <<Strftime_Ymd(today), Strftime_Ymd(today - 3)>>
    /\ lastLoad.wrote
    /\ lastLoad.ret.path.min = Strftime_Ymd(today - 3)
    /\ lastLoad.ret.path.max = Strftime_Ymd(today)

\* C15: parse_perl_output puts every non-blank stderr line in exactly one of
\* warnings, errors and other_stderr: each such line is in one of the three and
\* no line is in two of them, a line with both "warning" and "error" included.
C15_BucketsPartition ==
    (fnIn.kind = "parse_perl_output" /\ fnOut # Nothing) =>
        LET W == Range(fnOut[1].warnings)
            E == Range(fnOut[1].errors)
            O == Range(fnOut[1].other_stderr)
        IN  /\ \A i \in DOMAIN fnIn.stderr :
                  Strip(fnIn.stderr[i]) # <<>> => fnIn.stderr[i] \in W \cup E \cup O
            /\ W \cap E = {}
            /\ W \cap O = {}
            /\ E \cap O = {}

\* C16: upload_to_server returns the remote path when the file was transferred and
\* the sizes agree, and None when the upload failed: the return value of a
\* successful call differs from None.
C16_ReturnTellsOutcome ==
    /\ up.outcome = "ok" => up.ret # None
    /\ up.outcome \in UploadFailures => up.ret = None

\* C17: transform_data (src/main.py, src/utils/processors.py) never raises on bad
\* row values: for every table that has all source columns, tables with
\* unparseable Date values included, it returns a table in which each unparseable
\* Date is the null marker.
C17_TransformNeverRaises ==
    (/\ fnIn.kind \in {"main.transform_data", "processors.transform_data"}
     /\ fnOut # Nothing
     /\ fnIn.df.hasDate)
        => (/\ fnOut[1].kind = "return"
            /\ \A i \in DOMAIN fnIn.df.Date :
                  to_datetime(fnIn.df.Date[i]) = NaT => fnOut[1].Date[i] = NaN)

\* C18: for every parseable input date, the Date that the pipeline's transform_data
\* (src/main.py) returns is that calendar date as YYYY-MM-DD, and parsing it as
\* YYYY-MM-DD gives the input date.
C18_DateRoundTrip ==
    (/\ fnIn.kind = "main.transform_data"
     /\ fnOut # Nothing
     /\ fnOut[1].kind = "return")
        => \A i \in DOMAIN fnIn.df.Date :
              to_datetime(fnIn.df.Date[i]) # NaT =>
                  /\ fnOut[1].Date[i] = fnIn.df.Date[i]
                  /\ to_datetime(fnOut[1].Date[i]) = to_datetime(fnIn.df.Date[i])

\* C19: a connectivity failure of download_data (authentication, connect, timeout)
\* is reported to the engine as a failure of the task run, so that the engine runs
\* the task again while retries are left and fails the task run after the last.
C19_ConnectivityFailureRetried ==
    dl \in DownloadErrors =>
        dlTask.state = IF dlTask.runs =< retries THEN "AwaitingRetry" ELSE "Failed"

\* C20: a run in which a stage failed does not end reporting success: the final
\* outcome "Finished Successfully" is reported only when download_data,
\* upload_to_server and run_import all succeeded, run_import with exit code 0.
C20_SuccessOnlyIfAllSucceeded ==
    outcome = "Finished Successfully" =>
        (/\ dl = "ok"
         /\ up.outcome = "ok"
         /\ result[3] = 0)

----------------------------------------------------------------------------
(* Claims C21-C30 *)

\* C21: in one run_import invocation the command executed as the test is a dry
\* run, distinct from the command executed as the run, so that the import
\* command itself is issued at most once in the invocation.
C21_TestIsDryRun ==
    /\ \A i \in DOMAIN execLog, j \in DOMAIN execLog :
          (execLog[i].slot = "test" /\ execLog[j].slot = "run")
              => execLog[i].cmd # execLog[j].cmd
    /\ Cardinality({i \in DOMAIN execLog : execLog[i].cmd = commands.run}) =< 1

\* C22: when a call of load_to_local was killed while writing and left a truncated
\* file under the final name, the next call with the same table returns and leaves
\* under that name the complete table, whatever delete_existing_csvs and
\* restrict_delete_to_prefix are.
C22_RetryRewritesTruncatedFile ==
    (lastLoad.kind = "call" /\ lastLoad.afterCrash)
        => (/\ lastLoad.ret.kind = "return"
            /\ files[lastLoad.ret.path] = CsvBytes(loadArgs.df))

\* C23: across any sequence of runs (lastDownload.kind is "call" for a call that got
\* past line 70/128 to the cleanup), when the body of download_data gets to the
\* transfer, all deletions having succeeded, the raw directory holds no file
\* matching Vilbev-*.zip and no file at the target path; so when the body has
\* ended the directory holds at most one matching archive, and it is not one that
\* an earlier run left.
C23_NoStaleArchive ==
    (lastDownload.kind = "call" /\ lastDownload.failed = {}) =>
        (/\ \A f \in lastDownload.atTransfer : ~(f.prefix = "Vilbev-" /\ f.ext = "zip")
         /\ [prefix |-> "Vilbev-", date |-> Strftime_Ymd(lastDownload.day), ext |-> "zip"]
               \notin lastDownload.atTransfer
         /\ Cardinality({f \in DOMAIN rawDir : f.prefix = "Vilbev-" /\ f.ext = "zip"}) =< 1
         /\ \A f \in DOMAIN rawDir :
               (f.prefix = "Vilbev-" /\ f.ext = "zip") => rawDir[f].run = lastDownload.n)

\* the second run found the archive of the day before, left by the first run,
\* deleted it and fetched the archive of the day
C23_Witness ==
    /\ lastDownload.kind = "call"
    /\ lastDownload.n = 2
    /\ lastDownload.failed = {}
    /\ ZipName(lastDownload.day - 1) \in DOMAIN lastDownload.before
    /\ lastDownload.before[ZipName(lastDownload.day - 1)].run = 1
    /\ ZipName(lastDownload.day - 1) \notin DOMAIN rawDir
    /\ ZipName(lastDownload.day) \in DOMAIN rawDir
    /\ rawDir[ZipName(lastDownload.day)] = [run |-> 2, complete |-> TRUE]

\* a line with something other than blanks on it
NonBlank(line) == \E i \in DOMAIN line : line[i] # " "
\* a line with "warning" or "error" in it, in small or capital letters
Mentions(line) == \E i \in DOMAIN line : line[i] \in {"Warning:", "ERROR", "errors"}

\* C24: parse_perl_output returns as working_on the non-blank lines of stdout in
\* order; warnings, errors and other_stderr together hold every non-blank line of
\* stderr and no other line; other_stderr is exactly the non-blank lines of stderr
\* with neither "warning" nor "error" in them, in whatever case; and exit_code is
\* the exit code it was given.
C24_ClassifiesOutput ==
    (fnIn.kind = "parse_perl_output" /\ fnOut # Nothing) =>
        (/\ fnOut[1].working_on = SelectSeq(fnIn.stdout, NonBlank)
         /\ Range(fnOut[1].warnings) \cup Range(fnOut[1].errors)
                \cup Range(fnOut[1].other_stderr)
              = {fnIn.stderr[i] : i \in {j \in DOMAIN fnIn.stderr : NonBlank(fnIn.stderr[j])}}
         /\ fnOut[1].other_stderr =
               SelectSeq(fnIn.stderr, LAMBDA line : NonBlank(line) /\ ~Mentions(line))
         /\ fnOut[1].exit_code = fnIn.exit_code)

\* blank lines were dropped, a line in capitals was classified and one line with
\* neither word was kept as other_stderr
C24_Witness ==
    /\ fnIn.kind = "parse_perl_output"
    /\ fnIn.stdout = <<<<"Working", "file">>, <<" ">>>>
    /\ fnIn.stderr = <<<<" ">>, <<"ERROR", " ", "file">>, <<"Working", "file">>>>
    /\ fnOut # Nothing
    /\ fnOut[1].working_on = <<<<"Working", "file">>>>
    /\ fnOut[1].errors = <<<<"ERROR", " ", "file">>>>
    /\ fnOut[1].other_stderr = <<<<"Working", "file">>>>

\* C25: get_latest_zip returns, among the files of the directory that match the
\* pattern, one whose modification time is the greatest (of an older A.zip and a
\* newer B.zip it returns B.zip), and fails with FileNotFoundError exactly when no
\* file matches.
C25_LatestArchive ==
    (fnIn.kind = "get_latest_zip" /\ fnOut # Nothing) =>
        LET matching == {i \in DOMAIN fnIn.directory :
                            /\ fnIn.directory[i].name.prefix = "Vilbev-"
                            /\ fnIn.directory[i].name.ext = "zip"}
        IN  /\ fnOut[1].kind = "raise" <=> matching = {}
            /\ fnOut[1].kind = "raise" => fnOut[1].exc = "FileNotFoundError"
            /\ fnOut[1].kind = "return" =>
                  \E i \in matching :
                      /\ fnOut[1].latest = fnIn.directory[i].name
                      /\ \A j \in matching :
                            fnIn.directory[j].mtime =< fnIn.directory[i].mtime

\* glob yields the older Vilbev-A.zip before the newer Vilbev-B.zip; B is returned
C25_Witness ==
    /\ fnIn.kind = "get_latest_zip"
    /\ Len(fnIn.directory) >= 2
    /\ fnIn.directory[1] = [name |-> [prefix |-> "Vilbev-", date |-> "A", ext |-> "zip"],
                            mtime |-> 1]
    /\ fnIn.directory[2] = [name |-> [prefix |-> "Vilbev-", date |-> "B", ext |-> "zip"],
                            mtime |-> 2]
    /\ fnOut # Nothing
    /\ fnOut[1] = [kind |-> "return",
                   latest |-> [prefix |-> "Vilbev-", date |-> "B", ext |-> "zip"]]

\* C26: extract_data reads the first entry, in the order of the archive's listing,
\* whose name ends in ".csv" in whatever case; it fails when the archive has no
\* such entry; and when that entry cannot be decoded it raises and returns no table.
C26_FirstCsvOfArchive ==
    (fnIn.kind = "extract_data" /\ fnOut # Nothing) =>
        LET csvs == {i \in DOMAIN fnIn.archive :
                        fnIn.archive[i].name.ext \in {"csv", "CSV", "Csv"}}
        IN  /\ csvs = {} => fnOut[1] = Raised("ValueError: No CSV file found inside ZIP")
            /\ csvs # {} =>
                  LET first == fnIn.archive[SetMin(csvs)]
                  IN  /\ first.decodes => fnOut[1] = [kind |-> "return", df |-> first.name]
                      /\ ~first.decodes => fnOut[1].kind = "raise"

\* SALES.CSV comes before sales.csv in the listing and is the table returned
C26_Witness ==
    /\ fnIn.kind = "extract_data"
    /\ Len(fnIn.archive) = 3
    /\ fnIn.archive[1].name = [stem |-> "readme", ext |-> "txt"]
    /\ fnIn.archive[2] = [name |-> [stem |-> "SALES", ext |-> "CSV"], decodes |-> TRUE]
    /\ fnIn.archive[3].name = [stem |-> "sales", ext |-> "csv"]
    /\ fnOut # Nothing
    /\ fnOut[1] = [kind |-> "return", df |-> [stem |-> "SALES", ext |-> "CSV"]]

\* the directories named by the cumulative prefixes of the path of the call
PrefixDirs ==
    {Resolve(SubSeq(fnIn.remote_dir_posix, 1, k)) : k \in 1..Len(fnIn.remote_dir_posix)}
        \ {<<>>}

\* C27: _ensure_remote_dir checks each cumulative prefix of the path, from the root
\* outward, and creates it only if it is absent: a parent is created before its
\* child, a directory that exists is not created again and is no error; when it
\* returns normally every prefix of the path exists on the server.
C27_EveryPrefixExists ==
    (fnIn.kind = "_ensure_remote_dir" /\ fnOut # Nothing) =>
        LET calls == fnOut[1].calls
            made == {i \in DOMAIN calls : calls[i].op = "mkdir"}
        IN  /\ \A i \in made : Resolve(calls[i].path) \notin fnIn.dirs
            /\ \A i \in made, j \in made :
                  (i < j) => Len(Resolve(calls[i].path)) < Len(Resolve(calls[j].path))
            /\ \A i \in made : Resolve(calls[i].path) \in PrefixDirs
            /\ fnOut[1].kind = "return" => PrefixDirs \subseteq fnOut[1].dirs
            /\ (~fnIn.readonly \/ PrefixDirs \subseteq fnIn.dirs) => fnOut[1].kind = "return"

\* C28: when load_to_local fails on its table (no Date column, no parseable date,
\* or the date gate refuses it) OUTPUT_DIR holds the same files as before the
\* call: a refused table deletes no file staged earlier.
C28_FailureLeavesDirUnchanged ==
    (/\ lastLoad.kind = "call"
     /\ lastLoad.ret.kind = "raise"
     /\ lastLoad.ret.exc \in {"KeyError: Date", "ValueError: all NaT",
                              "ValueError: date range not within the last days",
                              "ValueError: latest file month"})
        => files = lastLoad.was

\* the second of two calls of load_to_local with one gate-passing table, the cleanup
\* being off or restricted to a prefix the output filename does not start with
SecondCallSparingOutput ==
    /\ PassesGate
    /\ lastLoad.again
    /\ \/ ~loadArgs.delete_existing_csvs
       \/ /\ loadArgs.restrict_delete_to_prefix # None
          /\ NameOfTable(loadArgs.df).prefix # loadArgs.restrict_delete_to_prefix

\* C29 as stated: with delete_existing_csvs=False, or with restrict_delete_to_prefix
\* set to a prefix the output filename does not start with, the second of two calls
\* of load_to_local with the same gate-passing table returns (same path, False) and
\* leaves every file of OUTPUT_DIR, the output file included, as it was.
C29_SecondCallChangesNothing ==
    SecondCallSparingOutput
        => (/\ lastLoad.ret = [kind |-> "return", path |-> NameOfTable(loadArgs.df),
                               saved |-> FALSE]
            /\ files = lastLoad.was)

\* C29 amended: in that second call load_to_local returns (same path, False), the
\* output file keeps its bytes, and every other file of OUTPUT_DIR stays as it was
\* except the files the cleanup of this call unlinks, all of which start with
\* restrict_delete_to_prefix; with delete_existing_csvs=False nothing is unlinked.
C29_SecondCallKeepsOutput ==
    SecondCallSparingOutput
        => (/\ lastLoad.ret = [kind |-> "return", path |-> NameOfTable(loadArgs.df),
                               saved |-> FALSE]
            /\ NameOfTable(loadArgs.df) \in DOMAIN files
            /\ files[NameOfTable(loadArgs.df)] = lastLoad.was[NameOfTable(loadArgs.df)]
            /\ DOMAIN files = DOMAIN lastLoad.was \ lastLoad.unlinked
            /\ \A f \in DOMAIN files : files[f] = lastLoad.was[f]
            /\ \A f \in lastLoad.unlinked : f.prefix = loadArgs.restrict_delete_to_prefix
            /\ ~loadArgs.delete_existing_csvs => lastLoad.unlinked = {})

C29_Witness ==
    /\ SecondCallSparingOutput
    /\ loadArgs.delete_existing_csvs
    /\ ~lastLoad.ret.saved
    /\ OtherCsv \in DOMAIN files
    /\ \E f \in DOMAIN files : f.prefix = "Viljoenbev_" /\ f # NameOfTable(loadArgs.df)

\* C30: in validate_dates with lookback_days = 3 the window check implies the month
\* check: whenever min_d and max_d lie in [today-3, today] the month of max_d is
\* today's month or the one before it, so the call returns and the stale-month
\* error is never raised.
C30_WindowImpliesMonth ==
    (fnIn.kind = "validate_dates" /\ fnIn.lookback = 3 /\ fnOut # Nothing)
        => (/\ fnOut # <<"ValueError: latest file month">>
            /\ (/\ fnIn.today_d - 3 =< fnIn.min_d /\ fnIn.min_d =< fnIn.today_d
                /\ fnIn.today_d - 3 =< fnIn.max_d /\ fnIn.max_d =< fnIn.today_d)
                    => fnOut = <<"ok">>)

C30_Witness ==
    /\ fnIn.kind = "validate_dates"
    /\ fnIn.lookback = 3
    /\ fnOut = <<"ok">>
    /\ DateOf(fnIn.today_d).m = 3
    /\ DateOf(fnIn.today_d).y = 2025
    /\ DateOf(fnIn.max_d).m = 2

====
